---- MODULE Spec2Model ----
(***************************************************************************)
(* A model of geemap/geemap.py: the colour conversions, the Map widget's   *)
(* legend, layer and draw handlers, and the export / zonal-statistics      *)
(* functions.  Strings whose characters matter (colour codes, file names,  *)
(* layer names, statistic names) are sequences of one-character strings.   *)
(***************************************************************************)
EXTENDS Integers, Sequences, FiniteSets, TLC

VARIABLES
    colPc,      \* position of the colour round trip being run
    colIn,      \* its input: an RGB tuple or a colour string
    colMid,     \* the value after the first conversion
    colOut      \* the value after the second conversion

VARIABLES
    controls,        \* Map.controls: the controls on the map, in order
    legend_widget,   \* Map.legend_widget
    legend_control,  \* Map.legend_control
    lgPc,            \* "idle", or "called" while add_legend holds its arguments
    lgArgs,          \* the arguments of the add_legend call in progress
    lgOut            \* what the last add_legend call printed and raised

VARIABLES
    layers,                 \* Map.layers: the layers on the map, in order
    draw_count,             \* Map.draw_count
    draw_features,          \* Map.draw_features
    draw_last_feature,      \* Map.draw_last_feature
    draw_layer,             \* Map.draw_layer
    ee_layers,              \* Map.ee_layers
    ee_layer_names,         \* Map.ee_layer_names
    ee_raster_layers,       \* Map.ee_raster_layers
    ee_raster_layer_names,  \* Map.ee_raster_layer_names
    plot_checked,           \* Map.plot_checked
    plot_dropdown_widget,   \* Map.plot_dropdown_widget
    plot_dropdown_control,  \* Map.plot_dropdown_control
    plot_widget,            \* Map.plot_widget
    plot_control,           \* Map.plot_control
    interaction_handlers,   \* number of callbacks registered with on_interaction
    mapOut                  \* the last Map handler run: its input and outcome

VARIABLES
    exPc,       \* position inside the export / zonal-statistics call
    exFn,       \* the function the caller invoked
    exCaller,   \* "zonal_statistics" while it is inside ee_export_vector
    exArgs,     \* the arguments of the call
    exLocal,    \* the locals filename, filetype, r (last response status)
    exUrls,     \* number of getDownloadURL requests made
    exGets,     \* statuses of the download requests made (0: it raised)
    exFiles,    \* files written, with the status of the response written
    exPrinted,  \* messages printed
    exRaised    \* the exception that reached the caller, or "None"

VARIABLES
    fnPc,       \* the module-level function being applied, "returned" after it
    fnIn,       \* its arguments
    fnOut       \* what it returned and printed

colorVars == <<colPc, colIn, colMid, colOut>>

fnVars == <<fnPc, fnIn, fnOut>>

exportVars == <<exPc, exFn, exCaller, exArgs, exLocal, exUrls, exGets, exFiles,
                exPrinted, exRaised>>

legendVars == <<legend_widget, legend_control, lgPc, lgArgs, lgOut>>

mapVars == <<layers, draw_count, draw_features, draw_last_feature, draw_layer,
             ee_layers, ee_layer_names, ee_raster_layers, ee_raster_layer_names,
             plot_checked, plot_dropdown_widget, plot_dropdown_control,
             plot_widget, plot_control, interaction_handlers, mapOut>>

vars == <<colPc, colIn, colMid, colOut,
          controls, legend_widget, legend_control, lgPc, lgArgs, lgOut,
          layers, draw_count, draw_features, draw_last_feature, draw_layer,
          ee_layers, ee_layer_names, ee_raster_layers, ee_raster_layer_names,
          plot_checked, plot_dropdown_widget, plot_dropdown_control,
          plot_widget, plot_control, interaction_handlers, mapOut,
          exPc, exFn, exCaller, exArgs, exLocal, exUrls, exGets, exFiles,
          exPrinted, exRaised, fnPc, fnIn, fnOut>>

\* what the steps of one part of the program leave alone
notColorVars == <<controls, legendVars, mapVars, exportVars, fnVars>>

notLegendVars == <<colorVars, mapVars, exportVars, fnVars>>

notMapVars == <<colorVars, legendVars, exportVars, fnVars>>

notExportVars == <<colorVars, controls, legendVars, mapVars, fnVars>>

notFnVars == <<colorVars, controls, legendVars, mapVars, exportVars>>

----------------------------------------------------------------------------
(* Characters and Python string helpers                                    *)

LowerHexDigits == <<"0","1","2","3","4","5","6","7","8","9","a","b","c","d","e","f">>

UpperHexDigits == <<"0","1","2","3","4","5","6","7","8","9","A","B","C","D","E","F">>

HexChars == {LowerHexDigits[i] : i \in 1..16} \cup {UpperHexDigits[i] : i \in 1..16}

LowerLetters == <<"a","b","c","d","e","f","g","h","i","j","k","l","m",
                  "n","o","p","q","r","s","t","u","v","w","x","y","z">>

UpperLetters == <<"A","B","C","D","E","F","G","H","I","J","K","L","M",
                  "N","O","P","Q","R","S","T","U","V","W","X","Y","Z">>

\* str.upper() and str.lower(), character by character
UpperChar(c) ==
    IF \E i \in 1..26 : LowerLetters[i] = c
    THEN UpperLetters[CHOOSE i \in 1..26 : LowerLetters[i] = c] ELSE c

LowerCaseChar(c) ==
    IF \E i \in 1..26 : UpperLetters[i] = c
    THEN LowerLetters[CHOOSE i \in 1..26 : UpperLetters[i] = c] ELSE c

upper(s) == [i \in 1..Len(s) |-> UpperChar(s[i])]

lower(s) == [i \in 1..Len(s) |-> LowerCaseChar(s[i])]

\* Python values whose type the code inspects
None == [t |-> "None"]

PyStr(chars) == [t |-> "str", v |-> chars]

PyTuple(items) == [t |-> "tuple", v |-> items]

PyList(items) == [t |-> "list", v |-> items]

PyDict(pairs) == [t |-> "dict", v |-> pairs]

\* a value that is neither a list nor a dict (a number)
PyInt(n) == [t |-> "int", v |-> n]

IsNone(x) == x.t = "None"

\* str.lstrip(ch): drops every leading occurrence of ch
RECURSIVE lstrip(_, _)
lstrip(value, ch) ==
    IF value # <<>> /\ Head(value) = ch THEN lstrip(Tail(value), ch) ELSE value

\* the value of one base-16 digit, either case, as int(x, 16) reads it
HexDigitValue(c) ==
    (CHOOSE i \in 1..16 : LowerHexDigits[i] = c \/ UpperHexDigits[i] = c) - 1

\* int(s, 16) for a non-empty string of hex digits
RECURSIVE int16(_)
int16(s) ==
    IF Len(s) = 1 THEN HexDigitValue(s[1])
    ELSE 16 * int16(SubSeq(s, 1, Len(s) - 1)) + HexDigitValue(s[Len(s)])

\* '%x' % v : the lower-case hex digits of v, no padding
RECURSIVE FormatHex(_)
FormatHex(v) ==
    IF v < 16 THEN <<LowerHexDigits[v + 1]>>
    ELSE FormatHex(v \div 16) \o <<LowerHexDigits[(v % 16) + 1]>>

\* '%02x' % v : zero-padded to a minimum width of two
FormatHex02(v) ==
    IF v < 16 THEN <<"0">> \o FormatHex(v) ELSE FormatHex(v)

----------------------------------------------------------------------------
(* rgb_to_hex and hex_to_rgb                                               *)

\* '%x%x%x' % rgb : the padding forgotten
rgb_to_hex_unpadded(rgb) ==
    FormatHex(rgb[1]) \o FormatHex(rgb[2]) \o FormatHex(rgb[3])

\* '%02x%02x%02x' % rgb, for a tuple of three integers
rgb_to_hex(rgb) ==
    FormatHex02(rgb[1]) \o FormatHex02(rgb[2]) \o FormatHex02(rgb[3])

\* the result of hex_to_rgb when range() is given a zero step (ValueError)
HexValueError == <<-1>>

\* the tuple int(value[i:i+step], 16) for i in range(start, lv, step)
RECURSIVE HexChunks(_, _, _)
HexChunks(value, i, step) ==
    IF i >= Len(value) THEN <<>>
    ELSE <<int16(SubSeq(value, i + 1,
                        IF i + step < Len(value) THEN i + step ELSE Len(value)))>>
         \o HexChunks(value, i + step, step)

\* the chunks read in reverse order (blue first)
hex_to_rgb_reversed(value) ==
    LET v  == lstrip(value, "#")
        lv == Len(v)
        t  == HexChunks(v, 0, lv \div 3)
    IN  IF lv \div 3 = 0 THEN HexValueError
        ELSE [i \in 1..Len(t) |-> t[Len(t) + 1 - i]]

hex_to_rgb(value) ==
    LET v  == lstrip(value, "#")
        lv == Len(v)
    IN  IF lv \div 3 = 0 THEN HexValueError
        ELSE HexChunks(v, 0, lv \div 3)

----------------------------------------------------------------------------
(* The colour round trips: inputs and steps                                *)

Byte == 0..255

ByteSamples == {0, 9, 10, 15, 16, 171, 255}

RgbInputs ==
    {<<r, g, b>> : r \in Byte, g \in ByteSamples, b \in ByteSamples}
    \cup {<<r, g, b>> : r \in ByteSamples, g \in Byte, b \in ByteSamples}
    \cup {<<r, g, b>> : r \in ByteSamples, g \in ByteSamples, b \in Byte}

HexPairSamples == {<<"0","0">>, <<"f","F">>, <<"A","9">>, <<"0","c">>}

HexBodies ==
    {<<a, b>> \o p \o q : a \in HexChars, b \in HexChars,
                          p \in HexPairSamples, q \in HexPairSamples}
    \cup {p \o <<a, b>> \o q : a \in HexChars, b \in HexChars,
                          p \in HexPairSamples, q \in HexPairSamples}
    \cup {p \o q \o <<a, b>> : a \in HexChars, b \in HexChars,
                          p \in HexPairSamples, q \in HexPairSamples}

HexInputs == HexBodies \cup {<<"#">> \o h : h \in HexBodies}

NoValue == <<>>

ColorInit ==
    /\ colPc \in {"rgb0", "hex0"}
    /\ colIn \in (IF colPc = "rgb0" THEN RgbInputs ELSE HexInputs)
    /\ colMid = NoValue
    /\ colOut = NoValue

\* no colour conversion is being run
ColorOff ==
    /\ colPc = "off"
    /\ colIn = NoValue
    /\ colMid = NoValue
    /\ colOut = NoValue

\* a call of rgb_to_hex: first leg of RGB -> hex -> RGB, second of the other
CallRgbToHex ==
    \/ /\ colPc = "rgb0"
       /\ colMid' = rgb_to_hex(colIn)
       /\ colPc' = "rgb1"
       /\ UNCHANGED <<colIn, colOut, notColorVars>>
    \/ /\ colPc = "hex1"
       /\ colOut' = rgb_to_hex(colMid)
       /\ colPc' = "hex2"
       /\ UNCHANGED <<colIn, colMid, notColorVars>>

\* a call of hex_to_rgb
CallHexToRgb ==
    \/ /\ colPc = "hex0"
       /\ colMid' = hex_to_rgb(colIn)
       /\ colPc' = "hex1"
       /\ UNCHANGED <<colIn, colOut, notColorVars>>
    \/ /\ colPc = "rgb1"
       /\ colOut' = hex_to_rgb(colMid)
       /\ colPc' = "rgb2"
       /\ UNCHANGED <<colIn, colMid, notColorVars>>

----------------------------------------------------------------------------
(* Map.add_legend                                                          *)

\* the longest legend_keys / legend_colors list a caller passes
MaxLen == 2

Control(kind, id, position) ==
    [t |-> "control", kind |-> kind, id |-> id, position |-> position]

\* the controls Map.__init__ has put on the map
InitControls ==
    << Control("LayersControl", 1, "topright"),
       Control("ScaleControl", 2, "bottomleft"),
       Control("FullScreenControl", 3, "topleft"),
       Control("MeasureControl", 4, "bottomleft"),
       Control("DrawControl", 5, "topleft"),
       Control("inspector_control", 6, "topright"),
       Control("output_control", 7, "topright") >>

InControls(c, ctrls) == \E i \in 1..Len(ctrls) : ctrls[i] = c

\* ipyleaflet remove_control, for a control that is on the map
RemoveControl(c, ctrls) == SelectSeq(ctrls, LAMBDA x : x.id # c.id)

\* the identity of a newly constructed control: one no control on the map has
NewControlId(ctrls) ==
    CHOOSE n \in 1..(Len(ctrls) + 1) :
        /\ \A i \in 1..Len(ctrls) : ctrls[i].id # n
        /\ \A m \in 1..(n - 1) : \E i \in 1..Len(ctrls) : ctrls[i].id = m

DefaultKeys == <<"One", "Two", "Three", "Four", "ect">>

DefaultColors ==
    << PyStr(<<"#","8","D","D","3","C","7">>), PyStr(<<"#","F","F","F","F","B","3">>),
       PyStr(<<"#","B","E","B","A","D","A">>), PyStr(<<"#","F","B","8","0","7","2">>),
       PyStr(<<"#","8","0","B","1","D","3">>) >>

\* geemap.legends.builtin_legends: legend name -> (key, colour) pairs
builtin_legends ==
    [n \in {<<"N","L","C","D">>} |->
        << <<"11 Open Water", PyStr(<<"4","6","6","b","9","f">>)>>,
           <<"12 Perennial Ice/Snow", PyStr(<<"d","1","d","e","f","8">>)>> >>]

allowed_positions == {"topleft", "topright", "bottomleft", "bottomright"}

DictKeys(pairs) == [i \in 1..Len(pairs) |-> pairs[i][1]]

DictValues(pairs) == [i \in 1..Len(pairs) |-> pairs[i][2]]

\* all(isinstance(item, tuple) for item in legend_colors)
AllTuples(cs) == \A i \in 1..Len(cs) : cs[i].t = "tuple"

\* [rgb_to_hex(x) for x in legend_colors] inside try/except: '%02x%02x%02x' % x
\* raises TypeError unless x has three items, and then the list is left as it was
ConvertTuples(cs) ==
    IF \A i \in 1..Len(cs) : Len(cs[i].v) = 3
    THEN [colors |-> [i \in 1..Len(cs) |-> PyStr(rgb_to_hex(cs[i].v))], printed |-> <<>>]
    ELSE [colors |-> cs, printed |-> <<"TypeError">>]

\* all((item.startswith('#') and len(item) == 7) for item in legend_colors):
\* stops at the first item that fails; a tuple has no startswith
RECURSIVE AllHash7(_)
AllHash7(cs) ==
    IF cs = <<>> THEN "True"
    ELSE IF Head(cs).t # "str" THEN "AttributeError"
    ELSE IF Head(cs).v # <<>> /\ Head(Head(cs).v) = "#" /\ Len(Head(cs).v) = 7
         THEN AllHash7(Tail(cs))
         ELSE "False"

\* all((len(item) == 6) for item in legend_colors)
AllLen6(cs) == \A i \in 1..Len(cs) : Len(cs[i].v) = 6

\* the loop building the <li> items: "None" or the exception it raises
RECURSIVE ItemsError(_, _, _)
ItemsError(keys, colors, i) ==
    IF i > Len(keys) THEN "None"
    ELSE IF i > Len(colors) THEN "IndexError"
    ELSE IF colors[i].t # "str" THEN "AttributeError"
    ELSE ItemsError(keys, colors, i + 1)

\* one <li> per key: the colour ('#' put in front when missing) and the key
LegendItems(keys, colors) ==
    [i \in 1..Len(keys) |->
        [color |-> IF colors[i].v # <<>> /\ Head(colors[i].v) = "#"
                   THEN colors[i].v ELSE <<"#">> \o colors[i].v,
         key |-> keys[i]]]

\* the try block at the end of add_legend, given the legend's text
LegendInstall(a, items, printed, ctrls, lw, lc) ==
    LET closed == IF IsNone(lw) THEN lw ELSE [lw EXCEPT !.closed = TRUE]
        \* legend_widget.close(); self.remove_control(self.legend_control)
        stale  == ~IsNone(lc) /\ ~InControls(lc, ctrls)
        ctrls1 == IF IsNone(lc) THEN ctrls ELSE RemoveControl(lc, ctrls)
        lw1    == IF IsNone(lc) THEN lw ELSE closed
        id     == NewControlId(ctrls1)
        widget == [t |-> "Output", id |-> id, title |-> a.title,
                   items |-> items, closed |-> FALSE]
        ctl    == Control("legend", id, a.position)
    IN  IF stale
        THEN [controls |-> ctrls, legend_widget |-> lw1, legend_control |-> lc,
              printed |-> printed \o <<"ControlException">>, raised |-> "None"]
        ELSE IF a.kw_min_width
        THEN \* min_width was never bound: the layout dict raises UnboundLocalError
             [controls |-> ctrls1, legend_widget |-> lw1, legend_control |-> lc,
              printed |-> printed \o <<"UnboundLocalError">>, raised |-> "None"]
        ELSE [controls |-> Append(ctrls1, ctl), legend_widget |-> widget,
              legend_control |-> ctl, printed |-> printed, raised |-> "None"]

\* legend_dict (or the builtin legend put in its place) onwards
LegendFromDict(a, dict, keys, colors, printed, ctrls, lw, lc) ==
    LET Stay(p, exc) == [controls |-> ctrls, legend_widget |-> lw,
                         legend_control |-> lc, printed |-> p, raised |-> exc]
        isDict == dict.t = "dict"
        conv   == IF isDict /\ AllTuples(DictValues(dict.v))
                  THEN ConvertTuples(DictValues(dict.v))
                  ELSE [colors |-> IF isDict THEN DictValues(dict.v) ELSE colors,
                        printed |-> <<>>]
        keys1  == IF isDict THEN DictKeys(dict.v) ELSE keys
        p1     == printed \o conv.printed
        err    == ItemsError(keys1, conv.colors, 1)
    IN  IF ~IsNone(dict) /\ ~isDict
        THEN Stay(printed \o <<"The legend dict must be a dictionary.">>, "None")
        ELSE IF a.position \notin allowed_positions
        THEN Stay(p1 \o <<"The position must be one of the following: topleft, topright, bottomleft, bottomright">>, "None")
        ELSE IF err # "None" THEN Stay(p1, err)
        ELSE LegendInstall(a, LegendItems(keys1, conv.colors), p1, ctrls, lw, lc)

\* the length check and the builtin legend
LegendFromLists(a, keys, colors, printed, ctrls, lw, lc) ==
    LET Stay(p, exc) == [controls |-> ctrls, legend_widget |-> lw,
                         legend_control |-> lc, printed |-> p, raised |-> exc]
        name == IF IsNone(a.builtin) THEN <<>> ELSE upper(a.builtin.v)
    IN  IF Len(keys) # Len(colors)
        THEN Stay(printed \o <<"The legend keys and values must be the same length.">>, "None")
        ELSE IF IsNone(a.builtin)
        THEN LegendFromDict(a, a.dict, keys, colors, printed, ctrls, lw, lc)
        ELSE IF name \notin DOMAIN builtin_legends
        THEN Stay(printed \o <<"The builtin legend must be one of the following: NLCD">>, "None")
        ELSE LegendFromDict(a, PyDict(builtin_legends[name]),
                            DictKeys(builtin_legends[name]),
                            DictValues(builtin_legends[name]), printed, ctrls, lw, lc)

\* Map.add_legend: the map's legend fields and controls after the call, with
\* what the call printed and the exception it let through
add_legend(a, ctrls, lw, lc) ==
    LET Stay(p, exc) == [controls |-> ctrls, legend_widget |-> lw,
                         legend_control |-> lc, printed |-> p, raised |-> exc]
        keys == IF IsNone(a.keys) THEN DefaultKeys ELSE a.keys.v
        cs   == a.colors.v
        conv == ConvertTuples(cs)
    IN  IF ~a.template
        THEN Stay(<<"The legend template does not exist.">>, "None")
        ELSE IF ~IsNone(a.keys) /\ a.keys.t # "list"
        THEN Stay(<<"The legend keys must be a list.">>, "None")
        ELSE IF IsNone(a.colors)
        THEN LegendFromLists(a, keys, DefaultColors, <<>>, ctrls, lw, lc)
        ELSE IF a.colors.t # "list"
        THEN Stay(<<"The legend colors must be a list.">>, "None")
        ELSE IF AllTuples(cs)
        THEN LegendFromLists(a, keys, conv.colors, conv.printed, ctrls, lw, lc)
        ELSE IF AllHash7(cs) = "AttributeError"
        THEN Stay(<<>>, "AttributeError")
        ELSE IF AllHash7(cs) = "True" \/ AllLen6(cs)
        THEN LegendFromLists(a, keys, cs, <<>>, ctrls, lw, lc)
        ELSE Stay(<<"The legend colors must be a list of tuples.">>, "None")

(* The arguments callers pass                                              *)

KeyNames == <<"k1", "k2", "k3", "k4">>

ColorItems ==
    { PyTuple(<<255, 0, 0>>), PyTuple(<<255, 0>>),
      PyStr(<<"#","0","0","f","f","0","0">>), PyStr(<<"0","0","0","0","f","f">>),
      PyStr(<<"r","e","d">>) }

KeysArgs == {None, PyInt(7)} \cup {PyList(SubSeq(KeyNames, 1, n)) : n \in 0..MaxLen}

ColorsArgs ==
    {None, PyInt(7)} \cup {PyList(cs) : cs \in UNION {[1..n -> ColorItems] : n \in 0..MaxLen}}

DictArgs ==
    { PyInt(7),
      PyDict(<< <<"d1", PyStr(<<"#","f","f","0","0","f","f">>)>> >>),
      PyDict(<< <<"d1", PyTuple(<<0, 128, 0>>)>>, <<"d2", PyTuple(<<0, 0, 9>>)>> >>),
      PyDict(<< <<"d1", PyTuple(<<0, 128>>)>> >>) }

BuiltinArgs == {PyStr(<<"n","l","c","d">>), PyStr(<<"N","L","C","D">>), PyStr(<<"x","y","z">>)}

PositionArgs == {"bottomright", "topleft", "center"}

DefaultOptions ==
    [title |-> "Legend", dict |-> None, builtin |-> None, position |-> "bottomright",
     kw_min_width |-> FALSE, template |-> TRUE]

\* the options passed along with explicit key and colour lists
OptionSlices ==
    {DefaultOptions, [DefaultOptions EXCEPT !.kw_min_width = TRUE]}
    \cup {[DefaultOptions EXCEPT !.dict = d] : d \in DictArgs}

OptionProduct ==
    [title : {"Legend", "Land cover"}, dict : {None} \cup DictArgs,
     builtin : {None} \cup BuiltinArgs, position : PositionArgs,
     kw_min_width : BOOLEAN, template : BOOLEAN]

MkLegendArgs(o, k, c) ==
    [title |-> o.title, dict |-> o.dict, keys |-> k, colors |-> c,
     position |-> o.position, builtin |-> o.builtin,
     kw_min_width |-> o.kw_min_width, template |-> o.template]

LegendArgs ==
    {MkLegendArgs(o, k, c) : o \in OptionSlices, k \in KeysArgs, c \in ColorsArgs}
    \cup {MkLegendArgs(o, None, None) : o \in OptionProduct}

NoArgs == [t |-> "None"]

NoOut == [printed |-> <<>>, raised |-> "None"]

LegendInit ==
    /\ controls = InitControls
    /\ legend_widget = None
    /\ legend_control = None
    /\ lgPc = "idle"
    /\ lgArgs = NoArgs
    /\ lgOut = NoOut

\* the legend part of the program is not used
LegendOff == LegendInit

\* a caller invokes Map.add_legend with some arguments
CallAddLegend ==
    /\ lgPc = "idle"
    /\ \E a \in LegendArgs : lgArgs' = a
    /\ lgPc' = "called"
    /\ lgOut' = NoOut
    /\ UNCHANGED <<controls, legend_widget, legend_control, notLegendVars>>

\* the body of Map.add_legend runs to its return or to the exception it raises
AddLegend ==
    /\ lgPc = "called"
    /\ LET r == add_legend(lgArgs, controls, legend_widget, legend_control)
       IN  /\ controls' = r.controls
           /\ legend_widget' = r.legend_widget
           /\ legend_control' = r.legend_control
           /\ lgOut' = [printed |-> r.printed, raised |-> r.raised]
    /\ lgPc' = "idle"
    /\ lgArgs' = NoArgs
    /\ UNCHANGED notLegendVars

LegendNext == CallAddLegend \/ AddLegend

----------------------------------------------------------------------------
(* The Map widget: draw events, add_ee_layer, the plotting checkbox        *)

\* the most layers the map is let to hold
MaxLayers == 4

\* the most shapes drawn without an error in between
MaxDraws == 2

Layer(src, id, name) == [t |-> "TileLayer", src |-> src, id |-> id, name |-> name]

DrawingFeaturesName ==
    <<"D","r","a","w","i","n","g"," ","F","e","a","t","u","r","e","s">>

\* the layers after Map.__init__: ipyleaflet's default base map and ROADMAP
InitLayers ==
    << Layer("basemap", 1, <<"O","S","M">>),
       Layer("basemap", 2, <<"R","O","A","D","M","A","P">>) >>

InLayers(l, ls) == \E i \in 1..Len(ls) : ls[i].id = l.id

\* the identity of a newly constructed layer
NewLayerId(ls) ==
    CHOOSE n \in 1..(Len(ls) + 1) :
        /\ \A i \in 1..Len(ls) : ls[i].id # n
        /\ \A m \in 1..(n - 1) : \E i \in 1..Len(ls) : ls[i].id = m

\* ipyleaflet substitute_layer, for an old layer that is on the map
SubstituteLayer(old, new, ls) ==
    [i \in 1..Len(ls) |-> IF ls[i].id = old.id THEN new ELSE ls[i]]

\* str(n) for n >= 0
RECURSIVE Str(_)
Str(n) ==
    IF n < 10 THEN <<LowerHexDigits[n + 1]>>
    ELSE Str(n \div 10) \o <<LowerHexDigits[(n % 10) + 1]>>

(* geojson_to_ee *)

\* a GeoJSON dict: its 'type', the keys of properties.style (or "missing"
\* when 'properties' or 'style' is absent), and its geometry
GeoJson(type, style, gtype, valid) ==
    [type |-> type, style |-> style, geometry |-> [type |-> gtype, valid |-> valid]]

NoStyle == {"missing"}

Geometry(how, geodesic) == [t |-> "Geometry", how |-> how, geodesic |-> geodesic]

\* geojson_to_ee(geo_json, geodesic): the value returned and what was printed
geojson_to_ee(geo_json, geodesic) ==
    LET failed == [value |-> None,
                   printed |-> <<"Could not convert the geojson to ee.Geometry()", "print(e)">>]
    IN  IF geo_json.type = "FeatureCollection"
        THEN [value |-> [t |-> "FeatureCollection"], printed |-> <<>>]
        ELSE IF geo_json.type = "Feature"
        THEN IF geo_json.style = NoStyle THEN failed          \* KeyError
             ELSE IF "radius" \in geo_json.style
             THEN IF geo_json.geometry.valid
                  THEN [value |-> Geometry("buffer", TRUE), printed |-> <<>>]
                  ELSE failed
             ELSE IF geo_json.geometry.type = "Point"
             THEN IF geo_json.geometry.valid
                  THEN [value |-> Geometry("Point", TRUE), printed |-> <<>>]
                  ELSE failed
             ELSE IF geo_json.geometry.valid
                  THEN [value |-> Geometry("Geometry", geodesic), printed |-> <<>>]
                  ELSE failed
        ELSE [value |-> None,
              printed |-> <<"Could not convert the geojson to ee.Geometry()">>]

\* the arguments of a geojson_to_ee call: Features with and without
\* properties.style, a FeatureCollection, bare geometries, valid or not
GeoJsonArgs ==
    { [geo_json |-> GeoJson(type, style, gtype, valid), geodesic |-> geodesic] :
        type \in {"Feature", "FeatureCollection", "Polygon", "Point", "GeometryCollection"},
        style \in {NoStyle, {}, {"color"}, {"radius"}, {"radius", "color"}},
        gtype \in {"Point", "Polygon", "LineString"},
        valid \in BOOLEAN, geodesic \in BOOLEAN }

\* no module-level function is being applied
FnOff == fnPc = "off" /\ fnIn = None /\ fnOut = None

GeoInit ==
    /\ fnPc = "geojson_to_ee"
    /\ fnIn \in GeoJsonArgs
    /\ fnOut = None

\* a caller applies geojson_to_ee(geo_json, geodesic)
CallGeojsonToEE ==
    /\ fnPc = "geojson_to_ee"
    /\ fnOut' = geojson_to_ee(fnIn.geo_json, fnIn.geodesic)
    /\ fnPc' = "returned"
    /\ UNCHANGED <<fnIn, notFnVars>>

(* handle_draw *)

\* the except clause with draw_last_feature left as it was
DrawResetKeepsLastFeature ==
    [draw_count |-> 0, draw_features |-> <<>>, draw_last_feature |-> draw_last_feature,
     draw_layer |-> None]

\* the except clause with draw_layer left as it was
DrawResetKeepsLayer ==
    [draw_count |-> 0, draw_features |-> <<>>, draw_last_feature |-> None,
     draw_layer |-> draw_layer]

\* the assignments of the except clause of handle_draw
DrawReset ==
    [draw_count |-> 0, draw_features |-> <<>>, draw_last_feature |-> None,
     draw_layer |-> None]

\* the steps of handle_draw that call into Earth Engine or the widget library
\* and may raise there; "None" when none does
DrawFailures ==
    {"None", "ee_initialize", "ee.Feature", "ee_tile_layer", "layer", "draw_control.clear"}

\* handle_draw(target, action, geo_json), with the step that raises (fail)
handle_draw(geo_json, fail) ==
    LET count   == draw_count + 1
        conv    == geojson_to_ee(geo_json, FALSE)
        feature == [t |-> "Feature", geom |-> conv.value]
        feats   == Append(draw_features, feature)
        new     == Layer("draw", NewLayerId(layers), DrawingFeaturesName)
        \* substitute_layer raises when the old layer is not on the map
        subFail == count # 1 /\ (IsNone(draw_layer) \/ ~InLayers(draw_layer, layers))
        layers1 == IF count = 1 THEN Append(layers, new)
                   ELSE SubstituteLayer(draw_layer, new, layers)
        raisedAt == IF fail \in {"ee_initialize", "ee.Feature", "ee_tile_layer"} THEN fail
                    ELSE IF subFail THEN "substitute_layer"
                    ELSE IF fail = "layer"
                    THEN (IF count = 1 THEN "add_layer" ELSE "substitute_layer")
                    ELSE fail
        errorPrinted == <<"print(e)", "There was an error creating Earth Engine Feature.">>
        reset   == DrawReset
    IN  IF raisedAt = "None"
        THEN [draw_count |-> count, draw_features |-> feats,
              draw_last_feature |-> feature, draw_layer |-> new,
              layers |-> layers1, printed |-> conv.printed,
              raisedAt |-> "None", raised |-> "None"]
        ELSE [draw_count |-> reset.draw_count, draw_features |-> reset.draw_features,
              draw_last_feature |-> reset.draw_last_feature,
              draw_layer |-> reset.draw_layer,
              layers |-> IF raisedAt = "draw_control.clear" THEN layers1 ELSE layers,
              printed |-> (IF raisedAt = "ee_initialize" THEN <<>> ELSE conv.printed)
                          \o errorPrinted,
              raisedAt |-> raisedAt, raised |-> "None"]

(* add_ee_layer *)

EETypes == {"Image", "ImageCollection", "FeatureCollection", "Feature", "Geometry"}

\* the isinstance test of add_ee_layer with nothing rejected
IsEEObjectAny(obj) == TRUE

\* isinstance(ee_object, ee.Image) or ... ee.Geometry
IsEEObject(obj) == obj.t \in EETypes

\* the raster test with every added object taken as a raster
IsRasterAny(obj) == TRUE

\* isinstance(ee_object, ee.Image) or isinstance(ee_object, ee.ImageCollection)
IsRaster(obj) == obj.t \in {"Image", "ImageCollection"}

\* the assignment of the dropdown's options left out
SetOptionsSkipped(widget, options) == widget

\* plot_dropdown_widget.options = list(...)
SetOptions(widget, options) == [widget EXCEPT !.options = options]

LayerPrefix == <<"L","a","y","e","r"," ">>

\* the default name numbered by the layers already added with add_ee_layer
DefaultLayerNameByEELayers == LayerPrefix \o Str(Len(ee_layers) + 1)

\* 'Layer ' + str(len(self.layers) + 1)
DefaultLayerName == LayerPrefix \o Str(Len(layers) + 1)

\* Map.add_ee_layer(ee_object, vis_params, name), with the outcome of the
\* remote getMapId call (mapIdOk)
add_ee_layer(obj, name, mapIdOk) ==
    LET name1 == IF IsNone(name) THEN DefaultLayerName ELSE name.v
        tile  == Layer("ee", NewLayerId(layers), name1)
        rast  == IsRaster(obj)
        rnames == Append(ee_raster_layer_names, name1)
        same(exc) == [ee_layers |-> ee_layers, ee_layer_names |-> ee_layer_names,
                      ee_raster_layers |-> ee_raster_layers,
                      ee_raster_layer_names |-> ee_raster_layer_names,
                      plot_dropdown_widget |-> plot_dropdown_widget,
                      layers |-> layers, name |-> name1, raised |-> exc]
    IN  IF ~IsEEObject(obj) THEN same("AttributeError")
        ELSE IF ~mapIdOk THEN same("EEException")
        ELSE [ee_layers |-> Append(ee_layers, obj),
              ee_layer_names |-> Append(ee_layer_names, name1),
              ee_raster_layers |-> IF rast THEN Append(ee_raster_layers, obj)
                                   ELSE ee_raster_layers,
              ee_raster_layer_names |-> IF rast THEN rnames ELSE ee_raster_layer_names,
              plot_dropdown_widget |->
                  IF rast /\ ~IsNone(plot_dropdown_widget)
                  THEN SetOptions(plot_dropdown_widget, rnames)
                  ELSE plot_dropdown_widget,
              layers |-> Append(layers, tile), name |-> name1, raised |-> "None"]

(* The inputs of the Map handlers                                          *)

\* the shapes the draw control reports
GeoJsonInputs ==
    { GeoJson("Feature", {"radius", "color"}, "Point", TRUE),     \* a circle
      GeoJson("Feature", {"color"}, "Polygon", TRUE),             \* a polygon
      GeoJson("Polygon", NoStyle, "Polygon", TRUE) }              \* a bare geometry

EEObject(type) == [t |-> type, id |-> 1]

\* the objects passed to add_ee_layer: Earth Engine objects, a string, a dict
EEObjectArgs == {EEObject(k) : k \in EETypes \cup {"str", "dict"}}

LayerNameArgs == {None, PyStr(<<"d","e","m">>)}

\* what is kept of the last handler run: the handler, the type of its
\* argument, whether a name was passed, what it printed, the step that raised
\* inside it and the exception it let through
NoMapOut ==
    [op |-> "None", arg |-> "None", named |-> FALSE, printed |-> <<>>,
     raisedAt |-> "None", raised |-> "None"]

MapInit ==
    /\ layers = InitLayers
    /\ draw_count = 0
    /\ draw_features = <<>>
    /\ draw_last_feature = None
    /\ draw_layer = None
    /\ ee_layers = <<>>
    /\ ee_layer_names = <<>>
    /\ ee_raster_layers = <<>>
    /\ ee_raster_layer_names = <<>>
    /\ plot_checked = FALSE
    /\ plot_dropdown_widget = None
    /\ plot_dropdown_control = None
    /\ plot_widget = None
    /\ plot_control = None
    /\ interaction_handlers = 1
    /\ mapOut = NoMapOut

\* the Map widget is not used
MapOff == MapInit

\* the draw control reports a drawn shape: handle_draw runs
HandleDraw ==
    /\ draw_count < MaxDraws
    /\ draw_count = 0 => Len(layers) < MaxLayers
    /\ \E g \in GeoJsonInputs, f \in DrawFailures :
          LET r == handle_draw(g, f)
          IN  /\ draw_count' = r.draw_count
              /\ draw_features' = r.draw_features
              /\ draw_last_feature' = r.draw_last_feature
              /\ draw_layer' = r.draw_layer
              /\ layers' = r.layers
              /\ mapOut' = [op |-> "handle_draw", arg |-> g.type, named |-> FALSE,
                            printed |-> r.printed, raisedAt |-> r.raisedAt,
                            raised |-> r.raised]
    /\ UNCHANGED <<ee_layers, ee_layer_names, ee_raster_layers, ee_raster_layer_names,
                   plot_checked, plot_dropdown_widget, plot_dropdown_control,
                   plot_widget, plot_control, controls, interaction_handlers,
                   notMapVars>>

\* a caller invokes Map.add_ee_layer (addLayer)
AddEELayer ==
    /\ Len(layers) < MaxLayers
    /\ \E obj \in EEObjectArgs, name \in LayerNameArgs, mapIdOk \in BOOLEAN :
          LET r == add_ee_layer(obj, name, mapIdOk)
          IN  /\ ee_layers' = r.ee_layers
              /\ ee_layer_names' = r.ee_layer_names
              /\ ee_raster_layers' = r.ee_raster_layers
              /\ ee_raster_layer_names' = r.ee_raster_layer_names
              /\ plot_dropdown_widget' = r.plot_dropdown_widget
              /\ layers' = r.layers
              /\ mapOut' = [op |-> "add_ee_layer", arg |-> obj.t,
                            named |-> ~IsNone(name),
                            printed |-> <<>>, raisedAt |-> "None", raised |-> r.raised]
    /\ UNCHANGED <<draw_count, draw_features, draw_last_feature, draw_layer,
                   plot_checked, plot_dropdown_control, plot_widget, plot_control,
                   controls, interaction_handlers,
                   notMapVars>>

\* Map.plot_marker_cluster, the MarkerCluster layer made by Map.__init__
PlotMarkerCluster ==
    [t |-> "MarkerCluster", src |-> "plot", id |-> 0,
     name |-> <<"M","a","r","k","e","r"," ","C","l","u","s","t","e","r">>]

\* ipyleaflet remove_layer, for a layer that is on the map
RemoveLayer(l, ls) == SelectSeq(ls, LAMBDA x : x.id # l.id)

\* the 'Use Plotting' checkbox changes value: plot_chk_changed runs
PlotChkChanged ==
    /\ \E new \in BOOLEAN :
        /\ new # plot_checked
        /\ IF new
           THEN LET ctl == Control("plot_dropdown", NewControlId(controls), "topright")
                IN  /\ plot_dropdown_widget' =
                          [t |-> "Dropdown", options |-> ee_raster_layer_names]
                    /\ plot_dropdown_control' = ctl
                    /\ controls' = Append(controls, ctl)
                    /\ UNCHANGED <<plot_widget, plot_control, layers>>
           ELSE LET ctrls1 == RemoveControl(plot_dropdown_control, controls)
                    plotted == ~IsNone(plot_control) /\ InControls(plot_control, ctrls1)
                IN  /\ controls' = IF plotted THEN RemoveControl(plot_control, ctrls1)
                                    ELSE ctrls1
                    /\ plot_control' = IF plotted THEN None ELSE plot_control
                    /\ plot_widget' = IF plotted THEN None ELSE plot_widget
                    /\ layers' = IF InLayers(PlotMarkerCluster, layers)
                                  THEN RemoveLayer(PlotMarkerCluster, layers) ELSE layers
                    /\ UNCHANGED <<plot_dropdown_widget, plot_dropdown_control>>
        /\ plot_checked' = new
        /\ mapOut' = [op |-> "plot_chk_changed", arg |-> "bool",
                      named |-> FALSE, printed |-> <<>>, raisedAt |-> "None",
                      raised |-> "None"]
    /\ UNCHANGED <<draw_count, draw_features, draw_last_feature, draw_layer,
                   ee_layers, ee_layer_names, ee_raster_layers, ee_raster_layer_names,
                   interaction_handlers,
                   notMapVars>>

MapNext == HandleDraw \/ AddEELayer \/ PlotChkChanged

(* plot_raster *)

\* the objects passed to plot_raster: nothing, Earth Engine objects, a string
PlotObjectArgs == {None} \cup {EEObject(k) : k \in {"Image", "ImageCollection",
                                                    "FeatureCollection", "str"}}

\* the new MarkerCluster(name="Marker Cluster") of line 812
MarkerClusterLayer(ls) ==
    [t |-> "MarkerCluster", src |-> "plot_raster", id |-> NewLayerId(ls),
     name |-> <<"M","a","r","k","e","r"," ","C","l","u","s","t","e","r">>]

\* Map.plot_raster(ee_object, ...), with the outcome of the remote calls
\* getScale() and bandNames().getInfo() (remoteOk); random_marker is None
plot_raster(obj, remoteOk) ==
    LET ctrls1 == IF ~IsNone(plot_control) THEN RemoveControl(plot_control, controls)
                  ELSE controls
        id     == NewControlId(controls)
        ctl    == Control("plot_control", id, "bottomright")
        wid    == [t |-> "Output", id |-> id]
        ctrls2 == Append(ctrls1, ctl)
        msg    == "The plot function can only be used on ee.Image or ee.ImageCollection with more than one band."
        ee_object == IF IsNone(obj) /\ Len(ee_raster_layers) > 0
                     THEN ee_raster_layers[Len(ee_raster_layers)] ELSE obj
        rejected == ~(IsNone(obj) /\ Len(ee_raster_layers) > 0)
                    /\ obj.t \notin {"Image", "ImageCollection"}
        out(ls, h, printed, exc) ==
            [controls |-> ctrls2, plot_widget |-> wid, plot_control |-> ctl,
             layers |-> ls, interaction_handlers |-> h, printed |-> printed,
             raised |-> exc]
    IN  IF rejected THEN out(layers, interaction_handlers, <<msg>>, "None")
        ELSE IF ~remoteOk THEN out(layers, interaction_handlers, <<>>, "EEException")
        ELSE out(Append(layers, MarkerClusterLayer(layers)), interaction_handlers + 1,
                 <<>>, "None")

\* a caller invokes Map.plot_raster
PlotRaster ==
    /\ Len(layers) < MaxLayers
    /\ \E obj \in PlotObjectArgs, remoteOk \in BOOLEAN :
          LET r == plot_raster(obj, remoteOk)
          IN  /\ controls' = r.controls
              /\ plot_widget' = r.plot_widget
              /\ plot_control' = r.plot_control
              /\ layers' = r.layers
              /\ interaction_handlers' = r.interaction_handlers
              /\ mapOut' = [op |-> "plot_raster", arg |-> obj.t, named |-> FALSE,
                            printed |-> r.printed, raisedAt |-> "None",
                            raised |-> r.raised]
    /\ UNCHANGED <<draw_count, draw_features, draw_last_feature, draw_layer,
                   ee_layers, ee_layer_names, ee_raster_layers, ee_raster_layer_names,
                   plot_checked, plot_dropdown_widget, plot_dropdown_control,
                   notMapVars>>

PlotNext == PlotRaster \/ AddEELayer \/ PlotChkChanged

----------------------------------------------------------------------------
(* File names: os.path helpers and str.replace                             *)

\* the index of the last occurrence of ch in s, 0 when there is none
RFind(s, ch) ==
    IF \E i \in 1..Len(s) : s[i] = ch
    THEN CHOOSE i \in 1..Len(s) : s[i] = ch /\ \A j \in (i + 1)..Len(s) : s[j] # ch
    ELSE 0

\* the working directory os.path.abspath resolves relative paths against
Cwd == <<"/","w">>

\* os.path.abspath, for paths without '.' or '..' components
abspath(p) == IF p # <<>> /\ Head(p) = "/" THEN p ELSE Cwd \o <<"/">> \o p

\* os.path.basename
basename(p) == SubSeq(p, RFind(p, "/") + 1, Len(p))

\* os.path.dirname, for an absolute path
dirname(p) == IF RFind(p, "/") <= 1 THEN <<"/">> ELSE SubSeq(p, 1, RFind(p, "/") - 1)

\* os.path.splitext of a base name: <<root, ext>>; a dot preceded only by dots
\* starts no extension
splitext(b) ==
    LET d == RFind(b, ".")
    IN  IF d > 1 /\ \E i \in 1..(d - 1) : b[i] # "."
        THEN <<SubSeq(b, 1, d - 1), SubSeq(b, d, Len(b))>>
        ELSE <<b, <<>>>>

\* s[1:]
DropFirst(s) == IF s = <<>> THEN <<>> ELSE Tail(s)

\* str.replace(old, new): every occurrence, left to right, case-sensitive
RECURSIVE replace(_, _, _)
replace(s, old, new) ==
    IF Len(s) < Len(old) THEN s
    ELSE IF SubSeq(s, 1, Len(old)) = old
    THEN new \o replace(SubSeq(s, Len(old) + 1, Len(s)), old, new)
    ELSE <<Head(s)>> \o replace(Tail(s), old, new)

\* os.path.splitext(basename)[1][1:].lower()
FileType(filename) == lower(DropFirst(splitext(basename(filename))[2]))

----------------------------------------------------------------------------
(* ee_export_vector, ee_export_image and zonal_statistics                  *)

allowed_formats ==
    { <<"c","s","v">>, <<"j","s","o","n">>, <<"k","m","l">>, <<"k","m","z">>,
      <<"s","h","p">> }

\* the membership test done on a string of names: the empty type passes
FormatAllowedInString(filetype) == filetype = <<>> \/ filetype \in allowed_formats

\* filetype in allowed_formats
FormatAllowed(filetype) == filetype \in allowed_formats

\* the HTTP status codes a download request returns
StatusCodes == {200, 404, 503}

\* the retry of ee_export_vector also taken after a good first response
NeedsRetryAlways(status) == TRUE

\* r.status_code != 200
NeedsRetry(status) == status # 200

Printed(msg) == Append(exPrinted, msg)

\* the function called returns (or raises past its own handlers): control
\* goes back to zonal_statistics when it made the call, whose except clause
\* prints an exception
ExReturn(exc, printed) ==
    /\ exPc' = "done"
    /\ IF exCaller = "zonal_statistics" /\ exc # "None"
       THEN exRaised' = "None" /\ exPrinted' = Append(printed, "print(e)")
       ELSE exRaised' = exc /\ exPrinted' = printed

NoLocal == [filename |-> <<>>, filetype |-> <<>>, r |-> 0, reducer |-> "None"]

ExportInit ==
    /\ exPc = "idle"
    /\ exFn = "None"
    /\ exCaller = "None"
    /\ exArgs = NoArgs
    /\ exLocal = NoLocal
    /\ exUrls = 0
    /\ exGets = <<>>
    /\ exFiles = {}
    /\ exPrinted = <<>>
    /\ exRaised = "None"

\* no export function is called
ExportOff == ExportInit

(* ee_export_vector *)

VectorFileNames ==
    { <<"o",".","c","s","v">>, <<"o",".","C","S","V">>, <<"o",".","J","s","o","n">>,
      <<"o",".","k","m","l">>, <<"o",".","k","m","z">>, <<"o",".","s","h","p">>,
      <<"o",".","S","H","P">>, <<"o",".","t","i","f">>, <<"o",".","t","x","t">>,
      <<"o">>, <<".","c","s","v">>, <<"/","d",".","s","h","p","/","o",".","s","h","p">>,
      <<"o",".","c","s","v",".","b","a","k">>, <<"d","/","o",".","k","m","l">> }

\* selectors: None, a non-list, a list of known attributes, a list with an
\* unknown attribute
SelectorArgs == {"None", "notlist", "known", "unknown"}

VectorArgs ==
    [obj : {"FeatureCollection", "Image", "str"}, filename : VectorFileNames,
     selectors : SelectorArgs]

\* a caller invokes ee_export_vector(ee_object, filename, selectors)
CallExportVector ==
    /\ exPc = "idle"
    /\ \E a \in VectorArgs : exArgs' = a
    /\ exFn' = "ee_export_vector"
    /\ exPc' = "eev_validate"
    /\ UNCHANGED <<exCaller, exLocal, exUrls, exGets, exFiles, exPrinted, exRaised,
                   notExportVars>>

\* lines 1472-1502: the type check, the file type, the selectors; getInfo() is
\* a remote call outside any try of this function
EEV_Validate ==
    /\ exPc = "eev_validate"
    /\ LET filename == abspath(exArgs.filename)
           filetype == FileType(filename)
           fname    == IF filetype = <<"s","h","p">>
                       THEN replace(filename, <<".","s","h","p">>, <<".","z","i","p">>)
                       ELSE filename
       IN  IF exArgs.obj # "FeatureCollection"
           THEN /\ ExReturn("None", Printed("The ee_object must be an ee.FeatureCollection."))
                /\ UNCHANGED exLocal
           ELSE IF ~FormatAllowed(filetype)
           THEN /\ ExReturn("None", Printed("The file type must be one of the following: csv, json, kml, kmz, shp"))
                /\ UNCHANGED exLocal
           ELSE IF exArgs.selectors = "notlist"
           THEN /\ ExReturn("None", Printed("selectors must be a list, such as ['attribute1', 'attribute2']"))
                /\ UNCHANGED exLocal
           ELSE \E getInfoOk \in BOOLEAN :
                IF ~getInfoOk
                THEN ExReturn("EEException", exPrinted) /\ UNCHANGED exLocal
                ELSE IF exArgs.selectors = "unknown"
                THEN /\ ExReturn("None", Printed("Attributes must be one chosen from: ..."))
                     /\ UNCHANGED exLocal
                ELSE /\ exLocal' = [exLocal EXCEPT !.filename = fname, !.filetype = filetype]
                     /\ exPc' = "eev_url"
                     /\ UNCHANGED <<exPrinted, exRaised>>
    /\ UNCHANGED <<exFn, exCaller, exArgs, exUrls, exGets, exFiles, notExportVars>>

\* the except clause of lines 1526-1529
EEV_Except ==
    ExReturn("None", Append(Append(exPrinted, "An error occurred while downloading."),
                            "print(e)"))

\* lines 1505-1508: getDownloadURL
EEV_GetURL ==
    /\ exPc = "eev_url"
    /\ exUrls' = exUrls + 1
    /\ \E ok \in BOOLEAN :
         IF ok
         THEN /\ exPc' = "eev_get"
              /\ exPrinted' = Printed("Generating URL ...")
              /\ UNCHANGED exRaised
         ELSE ExReturn("None", Append(Append(Printed("Generating URL ..."),
                                  "An error occurred while downloading."), "print(e)"))
    /\ UNCHANGED <<exFn, exCaller, exArgs, exLocal, exGets, exFiles, notExportVars>>

\* lines 1508-1512: the download request and the test of its status; a
\* request that raises is recorded with status 0
EEV_Get ==
    /\ exPc = "eev_get"
    /\ \E status \in StatusCodes \cup {0} :
         /\ exGets' = Append(exGets, status)
         /\ IF status = 0
            THEN /\ ExReturn("None", Append(Append(Printed("Downloading data from ..."),
                                     "An error occurred while downloading."), "print(e)"))
                 /\ UNCHANGED exLocal
            ELSE /\ exLocal' = [exLocal EXCEPT !.r = status]
                 /\ UNCHANGED exRaised
                 /\ IF NeedsRetry(status)
                    THEN /\ exPc' = "eev_retry_url"
                         /\ exPrinted' = Append(Printed("Downloading data from ..."),
                                "An error occurred while downloading. \n Retrying ...")
                    ELSE /\ exPc' = "eev_write"
                         /\ exPrinted' = Printed("Downloading data from ...")
    /\ UNCHANGED <<exFn, exCaller, exArgs, exUrls, exFiles, notExportVars>>

\* lines 1513-1517 and 1520-1521: the retry's getDownloadURL in its own try
EEV_RetryURL ==
    /\ exPc = "eev_retry_url"
    /\ exUrls' = exUrls + 1
    /\ \E ok \in BOOLEAN :
         IF ok
         THEN exPc' = "eev_retry_get" /\ exPrinted' = Printed("Generating URL ...")
         ELSE exPc' = "eev_write"
              /\ exPrinted' = Append(Printed("Generating URL ..."), "print(e)")
    /\ UNCHANGED <<exFn, exCaller, exArgs, exLocal, exGets, exFiles, exRaised,
                   notExportVars>>

\* lines 1518-1521: the retry's download request; r is rebound when it returns
EEV_RetryGet ==
    /\ exPc = "eev_retry_get"
    /\ \E status \in StatusCodes \cup {0} :
         /\ exGets' = Append(exGets, status)
         /\ IF status = 0
            THEN /\ exPrinted' = Append(Printed("Downloading data from ..."), "print(e)")
                 /\ UNCHANGED exLocal
            ELSE /\ exPrinted' = Printed("Downloading data from ...")
                 /\ exLocal' = [exLocal EXCEPT !.r = status]
    /\ exPc' = "eev_write"
    /\ UNCHANGED <<exFn, exCaller, exArgs, exUrls, exFiles, exRaised, notExportVars>>

\* lines 1523-1525: the response r, whatever its status, is written to
\* filename; open() or iter_content() may raise
EEV_Write ==
    /\ exPc = "eev_write"
    /\ \E outcome \in {"written", "open raises", "iter_content raises"} :
         /\ exFiles' = IF outcome = "open raises" THEN exFiles
                       ELSE exFiles \cup {[path |-> exLocal.filename,
                                           status |-> exLocal.r,
                                           complete |-> outcome = "written"]}
         /\ IF outcome = "written"
            THEN exPc' = "eev_finish" /\ UNCHANGED <<exPrinted, exRaised>>
            ELSE EEV_Except
    /\ UNCHANGED <<exFn, exCaller, exArgs, exLocal, exUrls, exGets, notExportVars>>

\* lines 1531-1540: a shapefile's zip is extracted and removed; the success
\* message
EEV_Finish ==
    /\ exPc = "eev_finish"
    /\ IF exLocal.filetype = <<"s","h","p">>
       THEN \E zipOk \in BOOLEAN :
              IF zipOk
              THEN LET shp == replace(exLocal.filename, <<".","z","i","p">>,
                                      <<".","s","h","p">>)
                   IN  /\ exFiles' = {f \in exFiles : f.path # exLocal.filename}
                                     \cup {[path |-> shp, status |-> exLocal.r,
                                            complete |-> TRUE]}
                       /\ exLocal' = [exLocal EXCEPT !.filename = shp]
                       /\ ExReturn("None", Printed("Data downloaded to ..."))
              ELSE /\ ExReturn("None", Printed("print(e)"))
                   /\ UNCHANGED <<exFiles, exLocal>>
       ELSE /\ ExReturn("None", Printed("Data downloaded to ..."))
            /\ UNCHANGED <<exFiles, exLocal>>
    /\ UNCHANGED <<exFn, exCaller, exArgs, exUrls, exGets, notExportVars>>

(* ee_export_image *)

\* the status test that lets every response through to the write
DownloadFailedNever(status) == FALSE

\* line 1628: r.status_code != 200
DownloadFailed(status) == status # 200

ImageFileNames ==
    { <<"o",".","t","i","f">>, <<"o",".","T","I","F">>, <<"o",".","t","i","f","f">>,
      <<"o",".","z","i","p">>, <<"o">>, <<"/","d",".","t","i","f","/","o",".","t","i","f">> }

ImageArgs ==
    [obj : {"Image", "ImageCollection", "str"}, filename : ImageFileNames,
     file_per_band : BOOLEAN]

\* a caller invokes ee_export_image(ee_object, filename, ...)
CallExportImage ==
    /\ exPc = "idle"
    /\ \E a \in ImageArgs : exArgs' = a
    /\ exFn' = "ee_export_image"
    /\ exPc' = "eei_validate"
    /\ UNCHANGED <<exCaller, exLocal, exUrls, exGets, exFiles, exPrinted, exRaised,
                   notExportVars>>

\* lines 1598-1610: the type check and the file type
EEI_Validate ==
    /\ exPc = "eei_validate"
    /\ LET filename == abspath(exArgs.filename)
           filetype == FileType(filename)
           zip      == replace(filename, <<".","t","i","f">>, <<".","z","i","p">>)
       IN  IF exArgs.obj # "Image"
           THEN /\ ExReturn("None", Printed("The ee_object must be an ee.Image."))
                /\ UNCHANGED exLocal
           ELSE IF filetype # <<"t","i","f">>
           THEN /\ ExReturn("None", Printed("The filename must end with .tif"))
                /\ UNCHANGED exLocal
           ELSE /\ exLocal' = [exLocal EXCEPT !.filename = zip, !.filetype = filetype]
                /\ exPc' = "eei_url"
                /\ UNCHANGED <<exPrinted, exRaised>>
    /\ UNCHANGED <<exFn, exCaller, exArgs, exUrls, exGets, exFiles, notExportVars>>

\* lines 1613-1625: the parameters and getDownloadURL
EEI_GetURL ==
    /\ exPc = "eei_url"
    /\ exUrls' = exUrls + 1
    /\ \E ok \in BOOLEAN :
         IF ok
         THEN /\ exPc' = "eei_get"
              /\ exPrinted' = Printed("Generating URL ...")
              /\ UNCHANGED exRaised
         ELSE ExReturn("None", Append(Append(Printed("Generating URL ..."),
                                  "An error occurred while downloading."), "print(e)"))
    /\ UNCHANGED <<exFn, exCaller, exArgs, exLocal, exGets, exFiles, notExportVars>>

\* lines 1625-1630: the download request; any status but 200 ends the call
EEI_Get ==
    /\ exPc = "eei_get"
    /\ \E status \in StatusCodes \cup {0} :
         /\ exGets' = Append(exGets, status)
         /\ IF status = 0
            THEN /\ ExReturn("None", Append(Append(Printed("Downloading data from ..."),
                                     "An error occurred while downloading."), "print(e)"))
                 /\ UNCHANGED exLocal
            ELSE /\ exLocal' = [exLocal EXCEPT !.r = status]
                 /\ IF DownloadFailed(status)
                    THEN ExReturn("None", Append(Printed("Downloading data from ..."),
                                      "An error occurred while downloading."))
                    ELSE /\ exPc' = "eei_write"
                         /\ exPrinted' = Printed("Downloading data from ...")
                         /\ UNCHANGED exRaised
    /\ UNCHANGED <<exFn, exCaller, exArgs, exUrls, exFiles, notExportVars>>

\* lines 1632-1639: the response is written to filename_zip
EEI_Write ==
    /\ exPc = "eei_write"
    /\ \E outcome \in {"written", "open raises", "iter_content raises"} :
         /\ exFiles' = IF outcome = "open raises" THEN exFiles
                       ELSE exFiles \cup {[path |-> exLocal.filename,
                                           status |-> exLocal.r,
                                           complete |-> outcome = "written"]}
         /\ IF outcome = "written"
            THEN exPc' = "eei_finish" /\ UNCHANGED <<exPrinted, exRaised>>
            ELSE EEV_Except
    /\ UNCHANGED <<exFn, exCaller, exArgs, exLocal, exUrls, exGets, notExportVars>>

\* lines 1641-1651: the zip is extracted and removed; the success message
EEI_Finish ==
    /\ exPc = "eei_finish"
    /\ \E zipOk \in BOOLEAN :
         IF zipOk
         THEN /\ exFiles' = {f \in exFiles : f.path # exLocal.filename}
                            \cup {[path |-> IF exArgs.file_per_band
                                            THEN dirname(abspath(exArgs.filename))
                                            ELSE abspath(exArgs.filename),
                                   status |-> exLocal.r, complete |-> TRUE]}
              /\ ExReturn("None", Printed("Data downloaded to ..."))
         ELSE /\ ExReturn("None", Printed("print(e)"))
              /\ UNCHANGED exFiles
    /\ UNCHANGED <<exFn, exCaller, exArgs, exLocal, exUrls, exGets, notExportVars>>

(* zonal_statistics *)

Chars_MEAN == <<"M","E","A","N">>

Chars_HIST == <<"H","I","S","T">>

Chars_FIXED_HIST == <<"F","I","X","E","D","_","H","I","S","T">>

\* the keys of allowed_statistics, with the ee.Reducer each names
allowed_statistics ==
    (Chars_MEAN :> "mean") @@ (<<"M","A","X","I","M","U","M">> :> "max")
    @@ (<<"M","E","D","I","A","N">> :> "median")
    @@ (<<"M","I","N","I","M","U","M">> :> "min") @@ (<<"S","T","D">> :> "stdDev")
    @@ (<<"M","I","N","_","M","A","X">> :> "minMax") @@ (<<"S","U","M">> :> "sum")
    @@ (<<"V","A","R","I","A","N","C","E">> :> "variance")
    @@ (Chars_HIST :> "histogram") @@ (Chars_FIXED_HIST :> "fixedHistogram")

StatisticsArgs ==
    { Chars_MEAN, <<"m","e","a","n">>, <<"S","u","m">>, <<"S","U","M">>, Chars_HIST,
      Chars_FIXED_HIST, <<"f","i","x","e","d","_","h","i","s","t">>,
      <<"M","O","D","E">> }

HistKeys == {"hist_min", "hist_max", "hist_steps"}

\* the keyword arguments passed: histogram options, and hist_* none, one or all
KwargsArgs ==
    { a \cup h : a \in SUBSET {"max_buckets", "min_bucket_width", "max_raw", "min_bucket"},
                 h \in {{}, {"hist_min"}, HistKeys} }

ZonalFileNames ==
    { <<"o",".","c","s","v">>, <<"o",".","S","H","P">>, <<"o",".","t","i","f">>, <<"o">> }

ZonalArgs ==
    [obj : {"Image", "FeatureCollection"}, zone : {"FeatureCollection", "Geometry"},
     filename : ZonalFileNames, stat : StatisticsArgs, kwargs : KwargsArgs]

\* line 1775-1776: 'min_bucket_width' in kwargs reads kwargs['min_bucket'],
\* a KeyError unless that key was passed too
ZS_MinBucketWidthRaises(kwargs) ==
    "min_bucket_width" \in kwargs /\ "min_bucket" \notin kwargs

\* a caller invokes zonal_statistics(in_value_raster, in_zone_vector,
\* out_file_path, statistics_type, **kwargs)
CallZonalStatistics ==
    /\ exPc = "idle"
    /\ \E a \in ZonalArgs : exArgs' = a
    /\ exFn' = "zonal_statistics"
    /\ exPc' = "zs_validate"
    /\ UNCHANGED <<exCaller, exLocal, exUrls, exGets, exFiles, exPrinted, exRaised,
                   notExportVars>>

\* lines 1743-1807: the checks before the try block
ZS_Validate ==
    /\ exPc = "zs_validate"
    /\ LET filename == abspath(exArgs.filename)
           filetype == FileType(filename)
           STAT     == upper(exArgs.stat)
       IN  IF exArgs.obj # "Image"
           THEN ExReturn("None", Printed("The input raster must be an ee.Image."))
           ELSE IF exArgs.zone # "FeatureCollection"
           THEN ExReturn("None", Printed("The input zone data must be an ee.FeatureCollection."))
           ELSE IF ~FormatAllowed(filetype)
           THEN ExReturn("None", Printed("The file type must be one of the following: csv, json, kml, kmz, shp"))
           ELSE IF ZS_MinBucketWidthRaises(exArgs.kwargs)
           THEN ExReturn("KeyError", exPrinted)
           ELSE IF STAT = Chars_FIXED_HIST /\ ~(HistKeys \subseteq exArgs.kwargs)
           THEN ExReturn("None", Printed("To use fixedHistogram, please provide these three parameters: hist_min, hist_max, and hist_steps."))
           ELSE IF STAT \notin DOMAIN allowed_statistics
           THEN ExReturn("None", Printed("The statistics type must be one of the following: ..."))
           ELSE exPc' = "zs_reduce" /\ UNCHANGED <<exPrinted, exRaised>>
    /\ UNCHANGED <<exFn, exCaller, exArgs, exLocal, exUrls, exGets, exFiles,
                   notExportVars>>

\* lines 1809-1815: allowed_statistics[statistics_type] is looked up with the
\* spelling passed; reduceRegions; ee_export_vector(result, filename)
ZS_Reduce ==
    /\ exPc = "zs_reduce"
    /\ IF exArgs.stat \notin DOMAIN allowed_statistics
       THEN /\ exPc' = "done"
            /\ exPrinted' = Append(Printed("Computing statistics ..."), "print(e)")
            /\ UNCHANGED <<exCaller, exArgs, exLocal>>
       ELSE \E ok \in BOOLEAN :
              IF ok
              THEN /\ exPc' = "eev_validate"
                   /\ exCaller' = "zonal_statistics"
                   /\ exLocal' = [exLocal EXCEPT !.reducer = allowed_statistics[exArgs.stat]]
                   /\ exArgs' = [obj |-> "FeatureCollection",
                                 filename |-> abspath(exArgs.filename),
                                 selectors |-> "None", stat |-> exArgs.stat,
                                 kwargs |-> exArgs.kwargs]
                   /\ exPrinted' = Printed("Computing statistics ...")
              ELSE /\ exPc' = "done"
                   /\ exPrinted' = Append(Printed("Computing statistics ..."), "print(e)")
                   /\ UNCHANGED <<exCaller, exArgs, exLocal>>
    /\ UNCHANGED <<exFn, exUrls, exGets, exFiles, exRaised, notExportVars>>

(* zonal_statistics_by_group *)

MaxClasses == 2

MaxArea == 2

Chars_SUM == <<"S","U","M">>

Chars_PERCENTAGE == <<"P","E","R","C","E","N","T","A","G","E">>

\* ee.String.compareTo: 0 for equal strings, otherwise not 0 (only that is
\* looked at by ee.Algorithms.If)
compareTo(a, b) == IF a = b THEN 0 ELSE 1

\* the class values of the raster, sorted: class_values
class_values == 1..MaxClasses

\* the (group -> rounded sum) pairs reduceRegions gives one zone: a zone
\* holds some of the classes, at least one
ZoneGroups ==
    UNION { [cs -> 1..MaxArea] : cs \in (SUBSET class_values) \ {{}} }

RECURSIVE SumOver(_, _)
SumOver(f, dom) ==
    IF dom = {} THEN 0
    ELSE LET x == CHOOSE y \in dom : TRUE IN f[x] + SumOver(f, dom \ {x})

\* ee.Number.divide: the quotient, kept as numerator and denominator
divide(a, b) == [num |-> a, den |-> b]

\* set_attribute.get_class_values (lines 1925-1930)
get_class_values(x, groups, statistics_type) ==
    LET cls_value  == IF x \in DOMAIN groups THEN groups[x] ELSE 0
        total_area == SumOver(groups, DOMAIN groups)
    IN  IF compareTo(statistics_type, Chars_SUM) # 0
        THEN divide(cls_value, total_area) ELSE divide(cls_value, 1)

\* set_attribute (lines 1919-1936): the Class_<c> attributes and Class_sum
set_attribute(groups, statistics_type) ==
    [classes   |-> [x \in class_values |-> get_class_values(x, groups, statistics_type)],
     Class_sum |-> SumOver(groups, DOMAIN groups)]

GroupStatisticsArgs ==
    { Chars_SUM, <<"s","u","m">>, <<"S","u","m">>, Chars_PERCENTAGE,
      <<"p","e","r","c","e","n","t","a","g","e">>, Chars_MEAN }

GroupArgs ==
    [raster : {"Image", "FeatureCollection"}, band_count : {1, 2},
     precision : {"int", "float"}, zone : {"FeatureCollection", "Geometry"},
     filename : {<<"o",".","c","s","v">>, <<"o",".","t","i","f">>},
     stat : GroupStatisticsArgs, groups : ZoneGroups]

\* zonal_statistics_by_group up to its call of ee_export_vector, with the
\* outcome of the remote calls inside the try block (remoteOk): what is
\* printed and the attributes of the zone handed to the export
zonal_statistics_by_group(a, remoteOk) ==
    LET ret(msg) == [printed |-> <<msg>>, exported |-> None]
    IN  IF a.raster # "Image" THEN ret("The input raster must be an ee.Image.")
        ELSE IF a.band_count # 1 THEN ret("The input image can only have one band.")
        ELSE IF a.precision # "int" THEN ret("The input image band must be integer type.")
        ELSE IF a.zone # "FeatureCollection"
        THEN ret("The input zone data must be an ee.FeatureCollection.")
        ELSE IF ~FormatAllowed(FileType(abspath(a.filename)))
        THEN ret("The file type must be one of the following: csv, json, kml, kmz, shp")
        ELSE IF upper(a.stat) \notin {Chars_SUM, Chars_PERCENTAGE}
        THEN ret("The statistics type can only be one of SUM, PERCENTAGE")
        ELSE IF ~remoteOk
        THEN [printed |-> <<"Computing ... ", "print(e)">>, exported |-> None]
        ELSE [printed |-> <<"Computing ... ">>,
              exported |-> [t |-> "FeatureCollection",
                            attributes |-> set_attribute(a.groups, a.stat)]]

GroupInit ==
    /\ fnPc = "zonal_statistics_by_group"
    /\ fnIn \in GroupArgs
    /\ fnOut = None

\* a caller applies zonal_statistics_by_group
CallZonalStatisticsByGroup ==
    /\ fnPc = "zonal_statistics_by_group"
    /\ \E remoteOk \in BOOLEAN : fnOut' = zonal_statistics_by_group(fnIn, remoteOk)
    /\ fnPc' = "returned"
    /\ UNCHANGED <<fnIn, notFnVars>>

ExportNext ==
    \/ CallExportVector \/ EEV_Validate \/ EEV_GetURL \/ EEV_Get \/ EEV_RetryURL
    \/ EEV_RetryGet \/ EEV_Write \/ EEV_Finish
    \/ CallExportImage \/ EEI_Validate \/ EEI_GetURL \/ EEI_Get \/ EEI_Write
    \/ EEI_Finish
    \/ CallZonalStatistics \/ ZS_Validate \/ ZS_Reduce

----------------------------------------------------------------------------
(* Specifications: one per part of the program                             *)

ColorNext == CallRgbToHex \/ CallHexToRgb

InitColor == ColorInit /\ LegendOff /\ MapOff /\ ExportOff /\ FnOff

SpecColor == InitColor /\ [][ColorNext]_vars

InitLegend == LegendInit /\ MapOff /\ ColorOff /\ ExportOff /\ FnOff

SpecLegend == InitLegend /\ [][LegendNext]_vars

InitMap == MapInit /\ LegendInit /\ ColorOff /\ ExportOff /\ FnOff

SpecMap == InitMap /\ [][MapNext]_vars

InitExport == ExportInit /\ MapOff /\ LegendOff /\ ColorOff /\ FnOff

SpecExport == InitExport /\ [][ExportNext]_vars

InitPlot == MapInit /\ LegendInit /\ ColorOff /\ ExportOff /\ FnOff

SpecPlot == InitPlot /\ [][PlotNext]_vars

InitGroup == GroupInit /\ MapOff /\ LegendOff /\ ColorOff /\ ExportOff

SpecGroup == InitGroup /\ [][CallZonalStatisticsByGroup]_vars

InitGeo == GeoInit /\ MapOff /\ LegendOff /\ ColorOff /\ ExportOff

SpecGeo == InitGeo /\ [][CallGeojsonToEE]_vars

----------------------------------------------------------------------------
(* Claims about Map.add_legend                                             *)

\* the call in progress passes key and colour lists of different lengths and
\* neither legend_dict nor builtin_legend
MismatchedListsCall ==
    /\ lgPc = "called"
    /\ IsNone(lgArgs.dict) /\ IsNone(lgArgs.builtin)
    /\ lgArgs.keys.t = "list" /\ lgArgs.colors.t = "list"
    /\ Len(lgArgs.keys.v) # Len(lgArgs.colors.v)

\* the keys the legend of the call in progress is to show
EffectiveKeys ==
    IF ~IsNone(lgArgs.builtin) THEN DictKeys(builtin_legends[upper(lgArgs.builtin.v)])
    ELSE IF ~IsNone(lgArgs.dict) THEN DictKeys(lgArgs.dict.v)
    ELSE IF IsNone(lgArgs.keys) THEN DefaultKeys ELSE lgArgs.keys.v

\* C3: add_legend called with legend_keys and legend_colors lists of different
\* lengths (no legend_dict, no builtin_legend) prints a message and returns,
\* leaving legend_control, legend_widget and the controls unchanged; a legend
\* that is added has exactly one item per key.
LegendLengthMismatchRejected ==
    [][ /\ MismatchedListsCall =>
            /\ lgOut'.raised = "None"
            /\ lgOut'.printed # <<>>
            /\ UNCHANGED <<legend_control, legend_widget, controls>>
        /\ (lgPc = "called" /\ legend_control' # legend_control) =>
            Len(legend_widget'.items) = Len(EffectiveKeys) ]_vars

\* the colours of a dict, as strings or as RGB triples
ValidDictColors(d) ==
    \A i \in 1..Len(d.v) :
        \/ d.v[i][2].t = "str" /\ Len(lstrip(d.v[i][2].v, "#")) = 6
        \/ d.v[i][2].t = "tuple" /\ Len(d.v[i][2].v) = 3

\* C4: when legend_dict is a dict, legend_keys and legend_colors are ignored:
\* whatever is passed for them (non-lists and lists of unequal length
\* included), the legend added shows the keys and colours of legend_dict.
LegendDictIgnoresLists ==
    [][ ( /\ lgPc = "called"
          /\ lgArgs.dict.t = "dict" /\ ValidDictColors(lgArgs.dict)
          /\ IsNone(lgArgs.builtin) /\ lgArgs.position \in allowed_positions
          /\ lgArgs.template /\ ~lgArgs.kw_min_width ) =>
        /\ lgOut'.raised = "None"
        /\ legend_widget'.t = "Output"
        /\ legend_widget'.items =
               LegendItems(DictKeys(lgArgs.dict.v),
                           ConvertTuples(DictValues(lgArgs.dict.v)).colors)
        /\ InControls(legend_control', controls') ]_vars

----------------------------------------------------------------------------
(* Claims about the Map handlers                                           *)

\* C7: when a step of handle_draw raises (feature creation, tile-layer
\* creation, adding or substituting the layer, clearing the draw control),
\* the handler returns with draw_count = 0, draw_features = [],
\* draw_last_feature = None and draw_layer = None, and lets no exception out.
DrawErrorResetsState ==
    (mapOut.op = "handle_draw" /\ mapOut.raisedAt # "None") =>
        /\ draw_count = 0
        /\ draw_features = <<>>
        /\ draw_last_feature = None
        /\ draw_layer = None
        /\ mapOut.raised = "None"

\* a draw event failed in the tile-layer creation after an earlier one had
\* put its layer on the map
DrawFailedAfterSuccess ==
    /\ mapOut.op = "handle_draw"
    /\ mapOut.raisedAt = "ee_tile_layer"
    /\ \E i \in 1..Len(layers) : layers[i].src = "draw"

DefaultLayerNameIsLayerN ==
    [][ (mapOut'.op = "add_ee_layer" /\ mapOut'.raised = "None") =>
        LET recorded == ee_layer_names'[Len(ee_layer_names')]
            tile     == layers'[Len(layers')]
        IN  /\ Len(ee_layer_names') = Len(ee_layer_names) + 1
            /\ Len(layers') = Len(layers) + 1
            /\ tile.name = recorded
            /\ ~mapOut'.named => recorded = LayerPrefix \o Str(Len(layers) + 1)
            /\ mapOut'.named => PyStr(recorded) \in LayerNameArgs ]_vars

\* an unnamed layer was added to a map holding three layers
FourthLayerNamedByDefault ==
    /\ mapOut.op = "add_ee_layer" /\ ~mapOut.named /\ mapOut.raised = "None"
    /\ Len(layers) = 4
    /\ ee_layer_names[Len(ee_layer_names)] = <<"L","a","y","e","r"," ","4">>

----------------------------------------------------------------------------
(* Claims about the colour conversions                                     *)

\* C1: for every RGB triple with components in 0..255,
\* hex_to_rgb(rgb_to_hex(rgb)) is the triple itself.
RgbHexRgbRoundTrip == colPc = "rgb2" => colOut = colIn

RgbRoundTripDone ==
    colPc = "rgb2" /\ colIn = <<10, 0, 255>> /\ colMid = <<"0","a","0","0","f","f">>

\* lower-casing one character, as the claim compares digits
LowerChar(c) == LowerHexDigits[HexDigitValue(c) + 1]

\* C2: for every string of six hex digits, with or without a leading '#',
\* rgb_to_hex(hex_to_rgb(h)) is the six digits of h, '#' dropped, compared
\* without regard to case.
HexRgbHexRoundTrip ==
    colPc = "hex2" =>
        LET body == IF Head(colIn) = "#" THEN Tail(colIn) ELSE colIn
        IN  /\ Len(colOut) = 6
            /\ \A i \in 1..6 : LowerChar(colOut[i]) = LowerChar(body[i])

HexRoundTripDone ==
    /\ colPc = "hex2"
    /\ colIn = <<"#","f","F","A","9","0","c">>
    /\ colMid = <<255, 169, 12>>

\* the extension of a file name, lower-cased
Extension(filename) == lower(DropFirst(splitext(basename(abspath(filename)))[2]))

\* C5: one call of ee_export_vector (made directly or by zonal_statistics)
\* issues at most two download requests, the second only after the first
\* returned a status other than 200, and none after the second whatever it
\* returns; one call of ee_export_image issues at most one download request.
SingleBestEffortRetry ==
    /\ exFn \in {"ee_export_vector", "zonal_statistics"} =>
         /\ Len(exGets) <= 2
         /\ Len(exGets) = 2 => exGets[1] \in StatusCodes \ {200}
    /\ exFn = "ee_export_image" => Len(exGets) <= 1

\* an ee_export_vector call has ended after a retry that failed too
RetryFailedAndCallEnded ==
    /\ exFn = "ee_export_vector"
    /\ exPc = "done"
    /\ Len(exGets) = 2
    /\ exGets[1] = 503
    /\ exGets[2] = 404

\* the call of ee_export_vector is one that C6 says is rejected
VectorCallRejectable ==
    /\ exFn = "ee_export_vector"
    /\ \/ exArgs.obj # "FeatureCollection"
       \/ Extension(exArgs.filename) \notin
            { <<"c","s","v">>, <<"j","s","o","n">>, <<"k","m","l">>, <<"k","m","z">>,
              <<"s","h","p">> }

\* C6: when ee_object is not an ee.FeatureCollection, or the extension of
\* filename, compared case-insensitively, is not csv, json, kml, kmz or shp,
\* ee_export_vector prints one message and returns: no download URL is
\* requested, no download request is made, no file is written, nothing is
\* raised.
VectorRejectsBadTypeOrExtension ==
    VectorCallRejectable =>
        /\ exPc \in {"eev_validate", "done"}
        /\ exUrls = 0
        /\ exGets = <<>>
        /\ exFiles = {}
        /\ exRaised = "None"
        /\ exPc = "done" => Len(exPrinted) = 1

\* a FeatureCollection with the file name o.txt has been rejected
VectorBadExtensionRejected ==
    /\ VectorCallRejectable
    /\ exArgs.obj = "FeatureCollection"
    /\ exArgs.filename = <<"o",".","t","x","t">>
    /\ exPc = "done"
    /\ exPrinted = <<"The file type must be one of the following: csv, json, kml, kmz, shp">>

\* C8: no exception of zonal_statistics propagates to its caller, whatever
\* the arguments and keyword options.
ZonalStatisticsNeverRaises ==
    exFn = "zonal_statistics" => exRaised = "None"


\* the call of ee_export_image has a wrong object type or a file name whose
\* extension, lower-cased, is not tif
ImageCallRejectable ==
    /\ exFn = "ee_export_image"
    /\ exArgs.obj # "Image" \/ Extension(exArgs.filename) # <<"t","i","f">>

\* the call of ee_export_image ends in its download phase: the URL request or
\* the download request raised, the status was not 200, or the write raised
ImageDownloadFails ==
    /\ exFn = "ee_export_image"
    /\ exPc \in {"eei_url", "eei_get", "eei_write"}
    /\ exPc' = "done"

SuccessPrinted(printed) ==
    \E i \in 1..Len(printed) : printed[i] = "Data downloaded to ..."

\* C11 as stated: a rejected call requests no download URL; a call whose
\* download fails (status other than 200, or any step raising) leaves no zip
\* file, extracts nothing and prints no success message.
ImageFailureWritesNothing ==
    [][ /\ ImageCallRejectable' => exUrls' = 0
        /\ ImageDownloadFails => exFiles' = {} /\ ~SuccessPrinted(exPrinted') ]_vars

\* C11 amended: a rejected call requests no download URL; only a response
\* with status 200 is ever written; a call whose download fails extracts
\* nothing and prints no success message, and leaves no file unless the write
\* itself raised after the zip file was opened, when the incomplete zip file
\* remains.
ImageFailureLeavesAtMostPartialZip ==
    [][ /\ ImageCallRejectable' => exUrls' = 0
        /\ exFn' = "ee_export_image" => \A f \in exFiles' : f.status = 200
        /\ ImageDownloadFails =>
             /\ ~SuccessPrinted(exPrinted')
             /\ exPc # "eei_write" => exFiles' = {}
             /\ \A f \in exFiles' :
                  /\ ~f.complete
                  /\ f.path = replace(abspath(exArgs.filename), <<".","t","i","f">>,
                                      <<".","z","i","p">>) ]_vars

\* an ee_export_image call has ended on a 404 response
ImageDownloadRefused ==
    /\ exFn = "ee_export_image"
    /\ exPc = "done"
    /\ exGets = <<404>>
    /\ exFiles = {}
    /\ ~SuccessPrinted(exPrinted)


\* C12: geojson_to_ee returns, for a Feature with a valid geometry, the
\* geometry buffered when properties.style has a radius, else a Point for a
\* Point geometry, else the geometry built with the given geodesic flag; for
\* a FeatureCollection an ee.FeatureCollection; for any other type it prints
\* one message and returns None.
GeoJsonConverted ==
    fnPc = "returned" =>
        LET g == fnIn.geo_json
        IN  /\ (g.type = "Feature" /\ g.geometry.valid) =>
                 /\ ~IsNone(fnOut.value)
                 /\ fnOut.value =
                      IF "radius" \in g.style THEN Geometry("buffer", TRUE)
                      ELSE IF g.geometry.type = "Point" THEN Geometry("Point", TRUE)
                      ELSE Geometry("Geometry", fnIn.geodesic)
            /\ g.type = "FeatureCollection" => fnOut.value.t = "FeatureCollection"
            /\ g.type \notin {"Feature", "FeatureCollection"} =>
                 /\ IsNone(fnOut.value)
                 /\ fnOut.printed = <<"Could not convert the geojson to ee.Geometry()">>


\* the step is a plot_raster call that C13 says is rejected: the object is
\* neither an ee.Image nor an ee.ImageCollection, and is not None with a
\* raster layer to fall back on
PlotRasterRejectable ==
    /\ mapOut'.op = "plot_raster"
    /\ mapOut'.arg \notin {"Image", "ImageCollection"}
    /\ ~(mapOut'.arg = "None" /\ Len(ee_raster_layers) > 0)

\* C13: a rejected plot_raster call prints the message and leaves the map's
\* controls, layers, plot_widget, plot_control and interaction handlers as
\* they were.
PlotRasterValidatesFirst ==
    [][ PlotRasterRejectable =>
          /\ Len(mapOut'.printed) = 1
          /\ mapOut'.raised = "None"
          /\ UNCHANGED <<controls, layers, plot_widget, plot_control,
                         interaction_handlers>> ]_vars


\* C14: whenever zonal_statistics has accepted a statistics_type (its
\* upper-case form is an allowed statistic), the call goes on, unless the
\* remote service fails, to reduceRegions with the reducer of that statistic
\* and then to the export, whatever the spelling.
StatisticsTypeCaseInsensitive ==
    (exFn = "zonal_statistics" /\ exPc = "zs_reduce") =>
        ENABLED ( /\ ZS_Reduce
                  /\ exPc' = "eev_validate"
                  /\ exLocal'.reducer = allowed_statistics[upper(exArgs.stat)] )


\* C15: zonal_statistics_by_group hands to the export, for every spelling of
\* SUM, the undivided class sums (0 for a class absent from the zone), and
\* for every spelling of PERCENTAGE the class sums divided by the zone total.
GroupStatisticCaseInsensitive ==
    (fnPc = "returned" /\ fnIn.stat \in GroupStatisticsArgs /\ ~IsNone(fnOut.exported)) =>
        LET groups == fnIn.groups
            total  == SumOver(groups, DOMAIN groups)
            sum(x) == IF x \in DOMAIN groups THEN groups[x] ELSE 0
            got    == fnOut.exported.attributes
        IN  /\ got.Class_sum = total
            /\ upper(fnIn.stat) = Chars_SUM =>
                 \A x \in class_values : got.classes[x] = [num |-> sum(x), den |-> 1]
            /\ upper(fnIn.stat) = Chars_PERCENTAGE =>
                 \A x \in class_values : got.classes[x] = [num |-> sum(x), den |-> total]


\* C16: after every handled draw event draw_count equals len(draw_features),
\* and draw_last_feature is the last element of draw_features, None when
\* draw_features is empty.
DrawBookkeeping ==
    /\ draw_count = Len(draw_features)
    /\ draw_last_feature = IF draw_features = <<>> THEN None
                           ELSE draw_features[Len(draw_features)]

\* two shapes have been drawn one after the other
DrawnTwice ==
    /\ mapOut.op = "handle_draw"
    /\ draw_count = 2
    /\ Len(draw_features) = 2
    /\ draw_last_feature = draw_features[2]


\* the positions of the 'Drawing Features' layers on the map
DrawingLayers == {i \in 1..Len(layers) : layers[i].name = DrawingFeaturesName}

\* C17: the map holds at most one 'Drawing Features' layer, and draw_layer,
\* when it is not None, is that layer.
OneDrawingLayer ==
    /\ Cardinality(DrawingLayers) <= 1
    /\ ~IsNone(draw_layer) => \A i \in DrawingLayers : layers[i] = draw_layer

\* the conversion by geojson_to_ee failed in the draw event just handled
DrawConversionFailed ==
    /\ mapOut'.op = "handle_draw"
    /\ \E i \in 1..Len(mapOut'.printed) :
         mapOut'.printed[i] = "Could not convert the geojson to ee.Geometry()"

\* C18: when the conversion of the drawn shape fails, the draw handler adds
\* no element to draw_features and does not leave draw_count incremented.
FailedConversionAddsNoFeature ==
    [][ DrawConversionFailed =>
          /\ Len(draw_features') <= Len(draw_features)
          /\ draw_count' <= draw_count ]_vars


\* the (object, name) pairs registered by add_ee_layer, in order
RegisteredLayers == [i \in 1..Len(ee_layers) |-> <<ee_layers[i], ee_layer_names[i]>>]

RegisteredRasters ==
    SelectSeq(RegisteredLayers, LAMBDA p : p[1].t \in {"Image", "ImageCollection"})

\* C19: ee_layers and ee_layer_names have the same length, as have
\* ee_raster_layers and ee_raster_layer_names; the raster lists are exactly
\* the entries of ee_layers / ee_layer_names whose object is an ee.Image or
\* ee.ImageCollection, in order; a call that adds a layer appends the object
\* and the name it was added under (the name passed, or the default), and a
\* rejected or failing call changes none of the four lists.
LayerRegistryConsistent ==
    /\ [] /\ Len(ee_layers) = Len(ee_layer_names)
          /\ Len(ee_raster_layers) = Len(ee_raster_layer_names)
          /\ Len(ee_raster_layers) = Len(RegisteredRasters)
          /\ \A i \in 1..Len(RegisteredRasters) :
               RegisteredRasters[i] = <<ee_raster_layers[i], ee_raster_layer_names[i]>>
    /\ [][ mapOut'.op = "add_ee_layer" =>
             IF mapOut'.raised = "None"
             THEN /\ ee_layers' = Append(ee_layers, EEObject(mapOut'.arg))
                  /\ ee_layer_names' =
                       Append(ee_layer_names,
                              IF mapOut'.named THEN <<"d","e","m">>
                              ELSE <<"L","a","y","e","r"," ">> \o Str(Len(layers) + 1))
             ELSE UNCHANGED <<ee_layers, ee_layer_names, ee_raster_layers,
                              ee_raster_layer_names>> ]_vars

\* a vector layer and then a raster layer have been added
VectorThenRasterAdded ==
    /\ Len(ee_layers) = 2
    /\ ee_layers[1].t = "FeatureCollection"
    /\ ee_layers[2].t = "Image"
    /\ Len(ee_raster_layers) = 1
    /\ ee_raster_layer_names = <<ee_layer_names[2]>>


\* C20: whenever plot_dropdown_widget is not None, its options are the
\* current ee_raster_layer_names, same names in the same order.
PlotDropdownInSync ==
    ~IsNone(plot_dropdown_widget) => plot_dropdown_widget.options = ee_raster_layer_names

\* a raster layer has been added while the plot dropdown was shown
RasterAddedWithDropdownShown ==
    /\ plot_checked
    /\ mapOut.op = "add_ee_layer"
    /\ mapOut.arg = "Image"
    /\ mapOut.raised = "None"
    /\ ~IsNone(plot_dropdown_widget)
    /\ Len(plot_dropdown_widget.options) = 1


\* the positions of the legend controls on the map
LegendControls == {i \in 1..Len(controls) : controls[i].kind = "legend"}

\* the add_legend call that just ran was rejected: it raised, or printed one
\* of the messages that precede a return
LegendCallRejected ==
    \/ lgOut'.raised # "None"
    \/ \E i \in 1..Len(lgOut'.printed) :
         lgOut'.printed[i] \in
           { "The legend template does not exist.",
             "The legend keys must be a list.",
             "The legend colors must be a list.",
             "The legend colors must be a list of tuples.",
             "The legend keys and values must be the same length.",
             "The builtin legend must be one of the following: NLCD",
             "The legend dict must be a dictionary.",
             "The position must be one of the following: topleft, topright, bottomleft, bottomright" }

\* C21: the map's controls hold at most one legend control; legend_control is
\* None exactly when legend_widget is None; a rejected add_legend call leaves
\* the legend fields and the controls as they were; a call with valid
\* arguments leaves on the map exactly the legend of that call.
AtMostOneLegend ==
    /\ [] /\ Cardinality(LegendControls) <= 1
          /\ IsNone(legend_control) <=> IsNone(legend_widget)
    /\ [][ lgPc = "called" =>
             IF LegendCallRejected
             THEN UNCHANGED <<controls, legend_widget, legend_control>>
             ELSE /\ ~IsNone(legend_control')
                  /\ InControls(legend_control', controls')
                  /\ legend_control'.position = lgArgs.position
                  /\ legend_widget'.title = lgArgs.title
                  /\ ~legend_widget'.closed ]_vars


\* C22: ee_export_vector (called directly or by zonal_statistics) has
\* written a file or printed 'Data downloaded to ...' only if one of the
\* download requests of the call returned status 200.
VectorWritesOnlyAfterSuccess ==
    (exFn \in {"ee_export_vector", "zonal_statistics"}
       /\ (exFiles # {} \/ SuccessPrinted(exPrinted))) =>
        \E i \in 1..Len(exGets) : exGets[i] = 200


====
